---- MODULE Spec2Model ----
(***************************************************************************)
(* LGTM Chrome extension: the background service worker                    *)
(* (src/background.ts) as a state machine.  Every icon click starts one    *)
(* handleIconClick call chain; a chain suspends at each await (fetch,      *)
(* response.json, chrome.tabs.query, chrome.scripting.executeScript) and   *)
(* the code between two awaits is one atomic step of the single-threaded   *)
(* event loop.                                                             *)
(***************************************************************************)
EXTENDS Integers, Sequences, FiniteSets, TLC

-----------------------------------------------------------------------------
(* Bounds of the model *)

\* number of icon clicks (handleIconClick invocations) that may overlap
NumInv == 2
\* longest ids array a catalog response carries
MaxLen == 3
\* Math.random() returns k/d with 0 <= k < d <= MaxDen
MaxDen == 3
\* longest array chrome.tabs.query resolves with when copyToClipboard is
\* called on its own
MaxTabs == 2
\* longest ids array handed to getRandomId when it is called on its own
MaxFnLen == 5

Inv == 1..NumInv

-----------------------------------------------------------------------------
(* config/constants.ts *)

LGTM_BASE_URL == "https://lgtm.kkhys.me"
IDS_JSON == "/api/ids.json"
AVIF == ".avif"

-----------------------------------------------------------------------------
(* JavaScript values *)

Undefined == [type |-> "undefined"]
Str(s) == [type |-> "string", val |-> s]
Arr(items) == [type |-> "array", items |-> items]
\* new Error(message), and the errors the platform raises
Err(name, message) == [type |-> "error", name |-> name, message |-> message]

\* how a piece of code ends: it returns a value, throws an error, or
\* suspends at an await on a platform call
Return(v) == [kind |-> "return", value |-> v]
Throw(e) == [kind |-> "throw", error |-> e]
Await(c) == [kind |-> "await", call |-> c]

\* ids[index] of a JavaScript array: undefined outside the array
At(items, index) ==
  IF index + 1 \in DOMAIN items THEN items[index + 1] ELSE Undefined

\* the values Math.random() can return, as reduced fractions <<k, d>> = k/d
Draws ==
  {r \in (0..(MaxDen - 1)) \X (1..MaxDen) :
     /\ r[1] < r[2]
     /\ \A g \in 2..MaxDen : ~(r[1] % g = 0 /\ r[2] % g = 0)}

\* variants of the index computation: ids.length - 1 as the scale,
\* Math.round and Math.ceil in place of Math.floor
RandomIndexShort(rand, length) == (rand[1] * (length - 1)) \div rand[2]
RandomIndexRound(rand, length) ==
  (2 * rand[1] * length + rand[2]) \div (2 * rand[2])
RandomIndexCeil(rand, length) == (rand[1] * length + rand[2] - 1) \div rand[2]

\* Math.floor(Math.random() * ids.length) for the draw rand = k/d
RandomIndex(rand, length) == (rand[1] * length) \div rand[2]

-----------------------------------------------------------------------------
(* The synchronous functions of background.ts *)

EmptyInput == Err("Error", "No image IDs found")
InternalConsistency == Err("Error", "Unexpected error: Failed to get ID")
NoActiveSurface == Err("Error", "No active tab found")
\* reading .length of a value that is not an array
LengthOfUndefined ==
  Err("TypeError", "Cannot read properties of undefined (reading 'length')")

\* variant: the empty-array check left out
getRandomIdNoEmptyCheck(ids, rand) ==
  IF ids.type # "array" THEN Throw(LengthOfUndefined)
  ELSE LET randomIndex == RandomIndex(rand, Len(ids.items))
           selectedId == At(ids.items, randomIndex)
       IN  IF selectedId = Undefined
           THEN Throw(InternalConsistency)
           ELSE Return(selectedId)

\* variant without the check of selectedId
getRandomIdNoUndefinedCheck(ids, rand) ==
  IF ids.type # "array" THEN Throw(LengthOfUndefined)
  ELSE IF Len(ids.items) = 0 THEN Throw(EmptyInput)
  ELSE Return(At(ids.items, RandomIndex(rand, Len(ids.items))))

getRandomId(ids, rand) ==
  IF ids.type # "array" THEN Throw(LengthOfUndefined)
  ELSE IF Len(ids.items) = 0 THEN Throw(EmptyInput)
  ELSE LET randomIndex == RandomIndex(rand, Len(ids.items))
           selectedId == At(ids.items, randomIndex)
       IN  IF selectedId = Undefined
           THEN Throw(InternalConsistency)
           ELSE Return(selectedId)

\* variant: the image URL without the file extension
generateLgtmHtmlNoExt(id) ==
  LET url == LGTM_BASE_URL \o "/" \o id
      imageUrl == LGTM_BASE_URL \o "/" \o id
  IN  "<a href=\"" \o url \o "\"><img src=\"" \o imageUrl
        \o "\" alt=\"LGTM!!\" width=\"400\" /></a>"

\* variant: {id} written without the $ of the template literal
generateLgtmHtmlLiteralId(id) ==
  LET url == LGTM_BASE_URL \o "/" \o "{id}"
      imageUrl == LGTM_BASE_URL \o "/" \o "{id}" \o AVIF
  IN  "<a href=\"" \o url \o "\"><img src=\"" \o imageUrl
        \o "\" alt=\"LGTM!!\" width=\"400\" /></a>"

generateLgtmHtml(id) ==
  LET url == LGTM_BASE_URL \o "/" \o id
      imageUrl == LGTM_BASE_URL \o "/" \o id \o AVIF
  IN  "<a href=\"" \o url \o "\"><img src=\"" \o imageUrl
        \o "\" alt=\"LGTM!!\" width=\"400\" /></a>"

-----------------------------------------------------------------------------
(* The asynchronous functions of background.ts, one operator per stretch   *)
(* of code between two awaits                                              *)

\* variant: the message without the status code
FetchFailureNoStatus(status) == Err("Error", "Failed to fetch API")

\* new Error(`Failed to fetch API: ${response.status}`)
FetchFailure(status) == Err("Error", "Failed to fetch API: " \o ToString(status))

\* response.ok
ResponseOk(status) == status \in 200..299

FetchCall == [api |-> "fetch", url |-> LGTM_BASE_URL \o IDS_JSON]
JsonCall == [api |-> "response.json"]
QueryCall == [api |-> "tabs.query", active |-> TRUE, currentWindow |-> TRUE]
ExecuteScriptCall(tabId, text) ==
  [api |-> "scripting.executeScript", target |-> [tabId |-> tabId],
   func |-> "navigator.clipboard.writeText", args |-> <<text>>]

\* data.ids
IdsOf(data) == IF "ids" \in DOMAIN data THEN data.ids ELSE Undefined

\* fetchLgtmIds up to its first await
fetchLgtmIds_start == Await(FetchCall)
\* fetchLgtmIds after fetch() resolved with a response of this status
fetchLgtmIds_response(status) ==
  IF ~ResponseOk(status) THEN Throw(FetchFailure(status)) ELSE Await(JsonCall)
\* fetchLgtmIds after response.json() resolved with data
fetchLgtmIds_data(data) == Return(IdsOf(data))

\* variant: only !tab
NoTabOnlyMissing(tab) == tab = Undefined

\* !tab || !tab.id
NoTab(tab) == tab = Undefined \/ "id" \notin DOMAIN tab \/ tab.id = 0

\* tab.id: undefined when the tab carries no id
TabId(tab) == IF "id" \in DOMAIN tab THEN tab.id ELSE Undefined

\* copyToClipboard up to its first await
copyToClipboard_start == Await(QueryCall)
\* copyToClipboard after chrome.tabs.query resolved with tabs
copyToClipboard_tabs(tabs, text) ==
  LET tab == IF Len(tabs) = 0 THEN Undefined ELSE tabs[1]
  IN  IF NoTab(tab)
      THEN Throw(NoActiveSurface)
      ELSE Await(ExecuteScriptCall(TabId(tab), text))
\* copyToClipboard after chrome.scripting.executeScript resolved
copyToClipboard_executed == Return(Undefined)

\* variant: the rejection wrapped in a new error
RejectedWrapped(e) ==
  Throw(Err("Error", "Failed to fetch API: " \o e.message))

\* an await whose promise rejects rethrows the rejection
Rejected(e) == Throw(e)

-----------------------------------------------------------------------------
(* The environment: network, catalog service, browser *)

\* errors fetch() rejects with when the transport fails
TransportErrors ==
  {Err("TypeError", "Failed to fetch"), Err("Error", "Network error")}

Statuses == {200, 404, 500}

Id(k) == "id" \o ToString(k)

\* the ids arrays the catalog serves: <<>>, <<id1>>, <<id1, id2>>, ...
Catalogs == {[k \in 1..n |-> Str(Id(k))] : n \in 0..MaxLen}

\* what response.json() resolves with: a catalog, or a body without ids
Bodies == {[ids |-> Arr(c)] : c \in Catalogs} \cup {[message |-> Str("oops")]}

\* response.json() rejects when the body is not JSON
JsonError == Err("SyntaxError", "Unexpected token < in JSON at position 0")

TabIds == {123, 456}
Tabs == {[active |-> TRUE]} \cup {[id |-> t, active |-> TRUE] : t \in TabIds}
\* { active: true, currentWindow: true } matches the one active tab of the
\* current window, or nothing
TabLists == {<<>>} \cup {<<t>> : t \in Tabs}
\* the arrays a test double of chrome.tabs.query may resolve with
FnTabLists == UNION {[1..n -> Tabs] : n \in 0..MaxTabs}

\* ids arrays for getRandomId called on its own: holes (undefined) included
FnElems == {Str(Id(1)), Str(Id(2)), Undefined}
FnCatalogs ==
  (UNION {[1..n -> FnElems] : n \in 0..MaxLen})
    \cup {[k \in 1..n |-> Str(Id(k))] : n \in 0..MaxFnLen}
FnIds == {"test-id-123", "test-id_with-special.chars123", Id(1), Id(2), ""}
FnTexts == {"test text", generateLgtmHtml(Id(1))}

\* errors chrome.scripting.executeScript rejects with
ScriptErrors == {Err("Error", "Cannot access contents of the page")}

InitialClipboard == "previous clipboard content"

-----------------------------------------------------------------------------
(* State *)

VARIABLES
  pc,            \* per invocation: "idle", the await it is suspended at, "done"
  ids,           \* handleIconClick's local ids
  randomId,      \* handleIconClick's local randomId
  html,          \* handleIconClick's local html
  rnd,           \* the value Math.random() returned to this invocation
  request,       \* the executeScript call in flight for this invocation
  result,        \* state of the promise handleIconClick returned
  consoleErrors, \* the console.error calls of this invocation
  fetchCount,    \* fetch() calls of this invocation
  jsonCount,     \* response.json() calls of this invocation
  queryCount,    \* chrome.tabs.query calls of this invocation
  execCount,     \* chrome.scripting.executeScript calls of this invocation
  writeCount,    \* navigator.clipboard.writeText runs of this invocation
  clipboard,     \* the system clipboard
  call,          \* one function of background.ts called on its own
  badgeText,     \* the badge text of the action icon
  badgeTimer,    \* per invocation: the setTimeout that clears the badge
  sinceSuccess,  \* per invocation: ms passed since its badge was set
  actionDefault, \* the default state of the action: "enabled" or "disabled"
  rules,         \* the rules declarativeContent.onPageChanged holds
  removing,      \* removeRules calls whose callback has not run yet
  adding,        \* addRules calls not yet carried out
  installs,      \* runtime.onInstalled events delivered
  page           \* per tab: the host of the page it shows

locals == <<ids, randomId, html, rnd, request>>
counts == <<fetchCount, jsonCount, queryCount, execCount, writeCount>>
badge == <<badgeText, badgeTimer, sinceSuccess>>
gate == <<actionDefault, rules, removing, adding, installs, page>>
variantB == <<badge, gate>>
vars == <<pc, locals, result, consoleErrors, counts, clipboard, call, variantB>>

NoRequest == [api |-> "none"]
NoDraw == <<0, 0>>
NoCall == [fn |-> "none"]
NoTimer == [state |-> "unset"]
FiredTimer == [state |-> "fired"]
PendingTimer(ms) == [state |-> "pending", ms |-> ms]

\* the tabs of the window and the page a new tab shows
GateTabs == TabIds
NewTabHost == "newtab"

\* no badge, no timer, the action enabled as the manifest leaves it, no
\* rule, no install event yet
InitVariantB ==
  /\ badgeText = ""
  /\ badgeTimer = [i \in Inv |-> NoTimer]
  /\ sinceSuccess = [i \in Inv |-> 0]
  /\ actionDefault = "enabled"
  /\ rules = <<>>
  /\ removing = 0
  /\ adding = 0
  /\ installs = 0
  /\ page = [t \in GateTabs |-> NewTabHost]

Init ==
  /\ pc = [i \in Inv |-> "idle"]
  /\ ids = [i \in Inv |-> Undefined]
  /\ randomId = [i \in Inv |-> Undefined]
  /\ html = [i \in Inv |-> ""]
  /\ rnd = [i \in Inv |-> NoDraw]
  /\ request = [i \in Inv |-> NoRequest]
  /\ result = [i \in Inv |-> "none"]
  /\ consoleErrors = [i \in Inv |-> <<>>]
  /\ fetchCount = [i \in Inv |-> 0]
  /\ jsonCount = [i \in Inv |-> 0]
  /\ queryCount = [i \in Inv |-> 0]
  /\ execCount = [i \in Inv |-> 0]
  /\ writeCount = [i \in Inv |-> 0]
  /\ clipboard = InitialClipboard
  /\ call = NoCall
  /\ InitVariantB


-----------------------------------------------------------------------------
(* handleIconClick, one action per resumption *)

\* variant of the catch block: the error is logged and thrown again
CatchRethrows(i, error) ==
  /\ consoleErrors' =
       [consoleErrors EXCEPT ![i] = Append(@, <<"Copy error:", error>>)]
  /\ pc' = [pc EXCEPT ![i] = "done"]
  /\ result' = [result EXCEPT ![i] = "rejected"]
  /\ ids' = [ids EXCEPT ![i] = Undefined]
  /\ randomId' = [randomId EXCEPT ![i] = Undefined]
  /\ html' = [html EXCEPT ![i] = ""]
  /\ rnd' = [rnd EXCEPT ![i] = NoDraw]
  /\ request' = [request EXCEPT ![i] = NoRequest]

\* variant of the catch block: error.message is logged, not the error
CatchLogsMessage(i, error) ==
  /\ consoleErrors' =
       [consoleErrors EXCEPT ![i] = Append(@, <<"Copy error:", Str(error.message)>>)]
  /\ pc' = [pc EXCEPT ![i] = "done"]
  /\ result' = [result EXCEPT ![i] = "fulfilled"]
  /\ ids' = [ids EXCEPT ![i] = Undefined]
  /\ randomId' = [randomId EXCEPT ![i] = Undefined]
  /\ html' = [html EXCEPT ![i] = ""]
  /\ rnd' = [rnd EXCEPT ![i] = NoDraw]
  /\ request' = [request EXCEPT ![i] = NoRequest]

\* the catch block: console.error("Copy error:", error), then the function
\* returns, its promise fulfils and its locals are gone
Catch(i, error) ==
  /\ consoleErrors' =
       [consoleErrors EXCEPT ![i] = Append(@, <<"Copy error:", error>>)]
  /\ pc' = [pc EXCEPT ![i] = "done"]
  /\ result' = [result EXCEPT ![i] = "fulfilled"]
  /\ ids' = [ids EXCEPT ![i] = Undefined]
  /\ randomId' = [randomId EXCEPT ![i] = Undefined]
  /\ html' = [html EXCEPT ![i] = ""]
  /\ rnd' = [rnd EXCEPT ![i] = NoDraw]
  /\ request' = [request EXCEPT ![i] = NoRequest]

\* variant: the listener registered a second time
onClickedListenersTwice == <<"handleIconClick", "handleIconClick">>

\* the listeners chrome.action.onClicked holds once the script has loaded
onClickedListeners == <<"handleIconClick">>

\* the invocations one click starts, the first of them being i: one per
\* registered listener
StartedBy(i) == i..(i + Len(onClickedListeners) - 1)

\* the icon is clicked: the event calls every registered listener in turn;
\* each calls handleIconClick, which runs into fetchLgtmIds and suspends at
\* fetch()
Click(i) ==
  /\ StartedBy(i) \subseteq Inv
  /\ \A j \in StartedBy(i) : pc[j] = "idle"
  /\ fetchLgtmIds_start.kind = "await"
  /\ pc' = [j \in Inv |-> IF j \in StartedBy(i) THEN "fetch" ELSE pc[j]]
  /\ result' = [j \in Inv |-> IF j \in StartedBy(i) THEN "pending" ELSE result[j]]
  /\ fetchCount' =
       [j \in Inv |-> IF j \in StartedBy(i) THEN fetchCount[j] + 1 ELSE fetchCount[j]]
  /\ UNCHANGED <<locals, consoleErrors, jsonCount, queryCount, execCount,
                 writeCount, clipboard, call, variantB>>

\* fetch() rejects: the transport failed
FetchRejects(i, e) ==
  /\ pc[i] = "fetch"
  /\ Catch(i, Rejected(e).error)
  /\ UNCHANGED <<counts, clipboard, call, variantB>>

\* variant: a response that is not ok is fetched again
FetchResolvesRetries(i, status) ==
  /\ pc[i] = "fetch"
  /\ IF ~ResponseOk(status)
     THEN /\ fetchCount' = [fetchCount EXCEPT ![i] = @ + 1]
          /\ UNCHANGED <<pc, jsonCount>>
     ELSE /\ pc' = [pc EXCEPT ![i] = "json"]
          /\ jsonCount' = [jsonCount EXCEPT ![i] = @ + 1]
          /\ UNCHANGED fetchCount
  /\ UNCHANGED <<locals, result, consoleErrors>>
  /\ UNCHANGED <<queryCount, execCount, writeCount, clipboard, call, variantB>>

\* fetch() resolves with a response
FetchResolves(i, status) ==
  /\ pc[i] = "fetch"
  /\ LET r == fetchLgtmIds_response(status)
     IN  IF r.kind = "throw"
         THEN Catch(i, r.error) /\ UNCHANGED jsonCount
         ELSE /\ pc' = [pc EXCEPT ![i] = "json"]
              /\ jsonCount' = [jsonCount EXCEPT ![i] = @ + 1]
              /\ UNCHANGED <<locals, result, consoleErrors>>
  /\ UNCHANGED <<fetchCount, queryCount, execCount, writeCount, clipboard, call, variantB>>

\* response.json() rejects: the body is not JSON
JsonRejects(i) ==
  /\ pc[i] = "json"
  /\ Catch(i, Rejected(JsonError).error)
  /\ UNCHANGED <<counts, clipboard, call, variantB>>

\* response.json() resolves with data: fetchLgtmIds returns data.ids, then
\* getRandomId, generateLgtmHtml and copyToClipboard up to tabs.query
JsonResolves(i, data, rand) ==
  /\ pc[i] = "json"
  /\ LET fetched == fetchLgtmIds_data(data).value
         picked == getRandomId(fetched, rand)
     IN  IF picked.kind = "throw"
         THEN Catch(i, picked.error) /\ UNCHANGED queryCount
         ELSE /\ copyToClipboard_start.kind = "await"
              /\ ids' = [ids EXCEPT ![i] = fetched]
              /\ rnd' = [rnd EXCEPT ![i] = rand]
              /\ randomId' = [randomId EXCEPT ![i] = picked.value]
              /\ html' = [html EXCEPT ![i] = generateLgtmHtml(picked.value.val)]
              /\ pc' = [pc EXCEPT ![i] = "query"]
              /\ queryCount' = [queryCount EXCEPT ![i] = @ + 1]
              /\ UNCHANGED <<request, result, consoleErrors>>
  /\ UNCHANGED <<fetchCount, jsonCount, execCount, writeCount, clipboard, call, variantB>>

\* variant: the missing tab is logged where it is found and the script is
\* executed all the same
QueryResolvesFallsThrough(i, tabs) ==
  /\ pc[i] = "query"
  /\ LET c == copyToClipboard_tabs(tabs, html[i])
     IN  /\ consoleErrors' =
              IF c.kind = "throw"
              THEN [consoleErrors EXCEPT
                      ![i] = Append(@, <<"Copy error:", c.error>>)]
              ELSE consoleErrors
         /\ request' =
              [request EXCEPT
                 ![i] = IF c.kind = "throw"
                        THEN ExecuteScriptCall(0, html[i]) ELSE c.call]
  /\ pc' = [pc EXCEPT ![i] = "exec"]
  /\ execCount' = [execCount EXCEPT ![i] = @ + 1]
  /\ UNCHANGED <<ids, randomId, html, rnd, result>>
  /\ UNCHANGED <<fetchCount, jsonCount, queryCount, writeCount, clipboard, call, variantB>>

\* chrome.tabs.query resolves with tabs
QueryResolves(i, tabs) ==
  /\ pc[i] = "query"
  /\ LET c == copyToClipboard_tabs(tabs, html[i])
     IN  IF c.kind = "throw"
         THEN Catch(i, c.error) /\ UNCHANGED execCount
         ELSE /\ request' = [request EXCEPT ![i] = c.call]
              /\ pc' = [pc EXCEPT ![i] = "exec"]
              /\ execCount' = [execCount EXCEPT ![i] = @ + 1]
              /\ UNCHANGED <<ids, randomId, html, rnd, result, consoleErrors>>
  /\ UNCHANGED <<fetchCount, jsonCount, queryCount, writeCount, clipboard, call, variantB>>

\* variant: the text to write is kept in one place shared by all
\* invocations, so the write takes the text of the latest call in flight
ExecResolvesShared(i) ==
  /\ pc[i] = "exec"
  /\ LET inflight == {j \in Inv : pc[j] = "exec"}
         latest == CHOOSE j \in inflight : \A k \in inflight : k <= j
     IN  clipboard' = request[latest].args[1]
  /\ writeCount' = [writeCount EXCEPT ![i] = @ + 1]
  /\ pc' = [pc EXCEPT ![i] = "done"]
  /\ result' = [result EXCEPT ![i] = "fulfilled"]
  /\ ids' = [ids EXCEPT ![i] = Undefined]
  /\ randomId' = [randomId EXCEPT ![i] = Undefined]
  /\ html' = [html EXCEPT ![i] = ""]
  /\ rnd' = [rnd EXCEPT ![i] = NoDraw]
  /\ request' = [request EXCEPT ![i] = NoRequest]
  /\ UNCHANGED <<consoleErrors, fetchCount, jsonCount, queryCount, execCount, call, variantB>>

\* the injected function ran in the tab and wrote the clipboard;
\* executeScript resolves, copyToClipboard and handleIconClick return
ExecResolves(i) ==
  /\ pc[i] = "exec"
  /\ copyToClipboard_executed.kind = "return"
  /\ clipboard' = request[i].args[1]
  /\ writeCount' = [writeCount EXCEPT ![i] = @ + 1]
  /\ pc' = [pc EXCEPT ![i] = "done"]
  /\ result' = [result EXCEPT ![i] = "fulfilled"]
  /\ ids' = [ids EXCEPT ![i] = Undefined]
  /\ randomId' = [randomId EXCEPT ![i] = Undefined]
  /\ html' = [html EXCEPT ![i] = ""]
  /\ rnd' = [rnd EXCEPT ![i] = NoDraw]
  /\ request' = [request EXCEPT ![i] = NoRequest]
  /\ UNCHANGED <<consoleErrors, fetchCount, jsonCount, queryCount, execCount, call, variantB>>

\* executeScript rejects: the script could not be injected
ExecRejects(i, e) ==
  /\ pc[i] = "exec"
  /\ Catch(i, Rejected(e).error)
  /\ UNCHANGED <<counts, clipboard, call, variantB>>

Next ==
  \/ \E i \in Inv : Click(i)
  \/ \E i \in Inv, e \in TransportErrors : FetchRejects(i, e)
  \/ \E i \in Inv, status \in Statuses : FetchResolves(i, status)
  \/ \E i \in Inv : JsonRejects(i)
  \/ \E i \in Inv, data \in Bodies, rand \in Draws : JsonResolves(i, data, rand)
  \/ \E i \in Inv, tabs \in TabLists : QueryResolves(i, tabs)
  \/ \E i \in Inv : ExecResolves(i)
  \/ \E i \in Inv, e \in ScriptErrors : ExecRejects(i, e)

Spec == Init /\ [][Next]_vars

-----------------------------------------------------------------------------
(* The exported functions called on their own, as the test suite calls     *)
(* them: call.arg holds the arguments, call.got what the platform answered *)
(* at each await, call.calls the platform calls made, call.out the outcome *)

NoOut == [kind |-> "none"]
NoArg == [none |-> TRUE]
NewCall(fn, arg) ==
  [fn |-> fn, pc |-> "start", arg |-> arg, got |-> <<>>, calls |-> <<>>,
   out |-> NoOut]

FnCalls ==
  {NewCall("getRandomId", [ids |-> Arr(c), rand |-> r]) :
     c \in FnCatalogs, r \in Draws}
    \cup {NewCall("generateLgtmHtml", [id |-> s]) : s \in FnIds}
    \cup {NewCall("fetchLgtmIds", NoArg)}
    \cup {NewCall("copyToClipboard", [text |-> t]) : t \in FnTexts}

InitFn ==
  /\ pc = [i \in Inv |-> "idle"]
  /\ ids = [i \in Inv |-> Undefined]
  /\ randomId = [i \in Inv |-> Undefined]
  /\ html = [i \in Inv |-> ""]
  /\ rnd = [i \in Inv |-> NoDraw]
  /\ request = [i \in Inv |-> NoRequest]
  /\ result = [i \in Inv |-> "none"]
  /\ consoleErrors = [i \in Inv |-> <<>>]
  /\ fetchCount = [i \in Inv |-> 0]
  /\ jsonCount = [i \in Inv |-> 0]
  /\ queryCount = [i \in Inv |-> 0]
  /\ execCount = [i \in Inv |-> 0]
  /\ writeCount = [i \in Inv |-> 0]
  /\ clipboard = InitialClipboard
  /\ call \in FnCalls
  /\ InitVariantB

\* the call ends with outcome out after the platform answered with answer
Finish(answer, out) ==
  call' = [call EXCEPT !.pc = "done", !.got = Append(@, answer), !.out = out]

\* the call makes the platform call c and suspends at pc
Suspend(answer, c, at) ==
  call' = [call EXCEPT !.pc = at, !.got = Append(@, answer),
                       !.calls = Append(@, c)]

handler == <<pc, locals, result, consoleErrors, counts, variantB>>

FnGetRandomId ==
  /\ call.fn = "getRandomId" /\ call.pc = "start"
  /\ call' = [call EXCEPT !.pc = "done",
                          !.out = getRandomId(call.arg.ids, call.arg.rand)]
  /\ UNCHANGED <<handler, clipboard>>

FnGenerateLgtmHtml ==
  /\ call.fn = "generateLgtmHtml" /\ call.pc = "start"
  /\ call' = [call EXCEPT !.pc = "done",
                          !.out = Return(Str(generateLgtmHtml(call.arg.id)))]
  /\ UNCHANGED <<handler, clipboard>>

FnFetchStart ==
  /\ call.fn = "fetchLgtmIds" /\ call.pc = "start"
  /\ call' = [call EXCEPT !.pc = "fetch",
                          !.calls = Append(@, fetchLgtmIds_start.call)]
  /\ UNCHANGED <<handler, clipboard>>

FnFetchRejects(e) ==
  /\ call.fn = "fetchLgtmIds" /\ call.pc = "fetch"
  /\ Finish([rejected |-> e], Rejected(e))
  /\ UNCHANGED <<handler, clipboard>>

FnFetchResolves(status) ==
  /\ call.fn = "fetchLgtmIds" /\ call.pc = "fetch"
  /\ LET r == fetchLgtmIds_response(status)
     IN  IF r.kind = "throw"
         THEN Finish([status |-> status], r)
         ELSE Suspend([status |-> status], r.call, "json")
  /\ UNCHANGED <<handler, clipboard>>

FnJsonRejects ==
  /\ call.fn = "fetchLgtmIds" /\ call.pc = "json"
  /\ Finish([rejected |-> JsonError], Rejected(JsonError))
  /\ UNCHANGED <<handler, clipboard>>

FnJsonResolves(data) ==
  /\ call.fn = "fetchLgtmIds" /\ call.pc = "json"
  /\ Finish([data |-> data], fetchLgtmIds_data(data))
  /\ UNCHANGED <<handler, clipboard>>

FnCopyStart ==
  /\ call.fn = "copyToClipboard" /\ call.pc = "start"
  /\ call' = [call EXCEPT !.pc = "query",
                          !.calls = Append(@, copyToClipboard_start.call)]
  /\ UNCHANGED <<handler, clipboard>>

FnQueryResolves(tabs) ==
  /\ call.fn = "copyToClipboard" /\ call.pc = "query"
  /\ LET c == copyToClipboard_tabs(tabs, call.arg.text)
     IN  IF c.kind = "throw"
         THEN Finish([tabs |-> tabs], c)
         ELSE Suspend([tabs |-> tabs], c.call, "exec")
  /\ UNCHANGED <<handler, clipboard>>

FnExecResolves ==
  /\ call.fn = "copyToClipboard" /\ call.pc = "exec"
  /\ Finish([executed |-> TRUE], copyToClipboard_executed)
  /\ clipboard' = call.calls[Len(call.calls)].args[1]
  /\ UNCHANGED handler

FnExecRejects(e) ==
  /\ call.fn = "copyToClipboard" /\ call.pc = "exec"
  /\ Finish([rejected |-> e], Rejected(e))
  /\ UNCHANGED <<handler, clipboard>>

NextFn ==
  \/ FnGetRandomId
  \/ FnGenerateLgtmHtml
  \/ FnFetchStart
  \/ \E e \in TransportErrors : FnFetchRejects(e)
  \/ \E status \in Statuses : FnFetchResolves(status)
  \/ FnJsonRejects
  \/ \E data \in Bodies : FnJsonResolves(data)
  \/ FnCopyStart
  \/ \E tabs \in FnTabLists : FnQueryResolves(tabs)
  \/ FnExecResolves
  \/ \E e \in ScriptErrors : FnExecRejects(e)

SpecFn == InitFn /\ [][NextFn]_vars

-----------------------------------------------------------------------------
(* Properties of handleIconClick, checked under Spec *)

Range(f) == {f[x] : x \in DOMAIN f}

\* floor(d * n) for the draw d = rand[1] / rand[2], stated by its defining
\* inequality k <= d * n < k + 1
FloorOf(rand, n) ==
  CHOOSE k \in 0..n : k * rand[2] <= rand[1] * n /\ rand[1] * n < (k + 1) * rand[2]

\* the invocation succeeded: its clipboard write ran
Succeeded(i) == pc[i] = "done" /\ writeCount[i] = 1
\* the invocation failed: it ended without its clipboard write
Failed(i) == pc[i] = "done" /\ writeCount[i] = 0

\* C1: handleIconClick never lets an error escape.  The promise it returned
\* is never rejected and is fulfilled once the invocation has ended; an
\* invocation that failed (at whatever stage) has made exactly one
\* console.error call, with the prefix "Copy error:", and an invocation that
\* succeeded or is still running has made none.
C1_NeverRaisesOneDiagnostic ==
  \A i \in Inv :
    /\ result[i] # "rejected"
    /\ pc[i] = "done" => result[i] = "fulfilled"
    /\ Failed(i) => /\ Len(consoleErrors[i]) = 1
                    /\ consoleErrors[i][1][1] = "Copy error:"
    /\ ~Failed(i) => Len(consoleErrors[i]) = 0

\* one invocation failed at the pick stage (empty catalog), another succeeded
C1_Witness ==
  \E i, j \in Inv :
    /\ Failed(i) /\ consoleErrors[i] = <<<<"Copy error:", EmptyInput>>>>
    /\ result[i] = "fulfilled"
    /\ Succeeded(j) /\ consoleErrors[j] = <<>>

\* the snippet the invocation must write: generateLgtmHtml(ids[floor(d*n)])
ExpectedHtml(i) ==
  generateLgtmHtml(ids[i].items[FloorOf(rnd[i], Len(ids[i].items)) + 1].val)

\* C2: end to end.  An invocation that got a catalog and an active tab with
\* an id has fetched a non-empty ids array of length n, has drawn d, and has
\* made exactly one executeScript call, whose sole argument is
\* generateLgtmHtml(ids[floor(d*n)]); when that call resolves, the clipboard
\* holds exactly that text and the invocation has written once.
C2_EndToEnd ==
  /\ [](\A i \in Inv :
          /\ execCount[i] <= 1 /\ writeCount[i] <= execCount[i]
          /\ pc[i] = "query" =>
               /\ ids[i].type = "array" /\ Len(ids[i].items) > 0
               /\ html[i] = ExpectedHtml(i)
               /\ execCount[i] = 0
          /\ pc[i] = "exec" =>
               /\ execCount[i] = 1
               /\ request[i].api = "scripting.executeScript"
               /\ request[i].args = <<ExpectedHtml(i)>>)
  /\ [][\A i \in Inv :
          pc[i] = "exec" /\ writeCount'[i] # writeCount[i] =>
            /\ clipboard' = ExpectedHtml(i)
            /\ writeCount'[i] = 1 /\ execCount'[i] = 1]_vars

\* ids [id1, id2, id3] and d = 0.5: the snippet for id2 is on its way
C2_Witness ==
  \E i \in Inv :
    /\ pc[i] = "exec"
    /\ ids[i] = Arr(<<Str("id1"), Str("id2"), Str("id3")>>)
    /\ rnd[i] = <<1, 2>>
    /\ request[i].args =
         <<"<a href=\"https://lgtm.kkhys.me/id2\"><img src=\"https://lgtm.kkhys.me/id2.avif\" alt=\"LGTM!!\" width=\"400\" /></a>">>

StageOf(p) ==
  CASE p = "idle" -> 0 [] p = "fetch" -> 1 [] p = "json" -> 2
    [] p = "query" -> 3 [] p = "exec" -> 4 [] p = "done" -> 5

\* C3: the stages run in the order fetch, pick/format, copy, and a failure
\* short-circuits the rest.  Every step of an invocation either moves it to
\* the next await in that order or ends it; the step in which an error is
\* raised (and logged) ends the invocation without any further platform call
\* and without touching the clipboard.  So an invocation that ends at the
\* fetch or at the pick has made no tabs.query and no executeScript call,
\* one that ends at the tab lookup has made no executeScript call, and
\* neither has written the clipboard.
C3_OrderAndShortCircuit ==
  [][\A i \in Inv :
       /\ pc'[i] # pc[i] =>
            \/ StageOf(pc'[i]) = StageOf(pc[i]) + 1
            \/ pc'[i] = "done"
       /\ consoleErrors'[i] # consoleErrors[i] =>
            /\ pc'[i] = "done"
            /\ fetchCount'[i] = fetchCount[i] /\ jsonCount'[i] = jsonCount[i]
            /\ queryCount'[i] = queryCount[i] /\ execCount'[i] = execCount[i]
            /\ writeCount'[i] = writeCount[i]
            /\ clipboard' = clipboard
       /\ pc[i] \in {"fetch", "json"} /\ pc'[i] = "done" =>
            queryCount'[i] = 0 /\ execCount'[i] = 0 /\ writeCount'[i] = 0
       /\ pc[i] = "query" /\ pc'[i] = "done" =>
            execCount'[i] = 0 /\ writeCount'[i] = 0
       /\ pc[i] = "done" =>
            /\ pc'[i] = "done"
            /\ queryCount'[i] = queryCount[i] /\ execCount'[i] = execCount[i]
            /\ writeCount'[i] = writeCount[i]]_vars

\* every invocation has ended, one at the tab lookup and the others at the
\* fetch or on an empty catalog; the clipboard is untouched
C3_Witness ==
  /\ \A i \in Inv : Failed(i) /\ execCount[i] = 0
  /\ \E i \in Inv : consoleErrors[i][1][2] = NoActiveSurface /\ queryCount[i] = 1
  /\ \E i \in Inv : consoleErrors[i][1][2] = EmptyInput /\ queryCount[i] = 0
  /\ clipboard = InitialClipboard

-----------------------------------------------------------------------------
(* Properties of the single functions, checked under SpecFn *)

Called(fn) == call.fn = fn /\ call.pc = "done"

\* C4: for every id, generateLgtmHtml(id) returns exactly
\* <a href="{origin}/{id}"><img src="{origin}/{id}{ext}" alt="LGTM!!"
\* width="400" /></a> with origin https://lgtm.kkhys.me and ext .avif, no
\* other characters, and it never throws.
C4_ExactMarkup ==
  Called("generateLgtmHtml") =>
    LET id == call.arg.id
    IN  /\ call.out.kind = "return"
        /\ call.out.value =
             Str("<a href=\"https://lgtm.kkhys.me/" \o id
                   \o "\"><img src=\"https://lgtm.kkhys.me/" \o id
                   \o ".avif\" alt=\"LGTM!!\" width=\"400\" /></a>")

\* id test-id-123 gives the string of the specification, byte for byte
C4_Witness ==
  /\ Called("generateLgtmHtml")
  /\ call.arg.id = "test-id-123"
  /\ call.out =
       Return(Str("<a href=\"https://lgtm.kkhys.me/test-id-123\"><img src=\"https://lgtm.kkhys.me/test-id-123.avif\" alt=\"LGTM!!\" width=\"400\" /></a>"))

\* the call copyToClipboard must make for this tab and text
ClipboardWriteAt(tabId, text) ==
  [api |-> "scripting.executeScript", target |-> [tabId |-> tabId],
   func |-> "navigator.clipboard.writeText", args |-> <<text>>]

\* C5: once chrome.tabs.query has answered, copyToClipboard(text) throws
\* "No active tab found" exactly when the answer is empty or its first tab
\* has no id, and then it has made no executeScript call; in every other
\* case it has made exactly one executeScript call, for the clipboard-write
\* function, targeted at the first tab's id, with text as the sole argument.
C5_NoActiveSurfaceExactly ==
  call.fn = "copyToClipboard" /\ Len(call.got) >= 1 =>
    LET tabs == call.got[1].tabs
        lacks == Len(tabs) = 0 \/ "id" \notin DOMAIN tabs[1]
        scripts == SelectSeq(call.calls, LAMBDA c : c.api = "scripting.executeScript")
    IN  /\ call.out = Throw(Err("Error", "No active tab found")) <=> lacks
        /\ lacks => call.pc = "done" /\ scripts = <<>>
        /\ ~lacks => scripts = <<ClipboardWriteAt(tabs[1].id, call.arg.text)>>

\* the first tab has id 456, a second tab has none: the script ran on 456
C5_Witness ==
  /\ Called("copyToClipboard")
  /\ call.arg.text = "test text"
  /\ call.got[1].tabs = <<[id |-> 456, active |-> TRUE], [active |-> TRUE]>>
  /\ call.calls[2] = ClipboardWriteAt(456, "test text")
  /\ call.out = Return(Undefined)
  /\ clipboard = "test text"

\* a second case of C5: a first tab without an id, however many follow
C5_WitnessNoId ==
  /\ Called("copyToClipboard")
  /\ call.got[1].tabs = <<[active |-> TRUE], [id |-> 123, active |-> TRUE]>>
  /\ call.out = Throw(NoActiveSurface)
  /\ Len(call.calls) = 1

\* C6: when fetch() resolves with a response whose status is not a success
\* status, fetchLgtmIds throws an Error whose message is
\* "Failed to fetch API: " followed by that status in decimal (500 gives
\* "Failed to fetch API: 500"), and response.json() is never called.
C6_FetchFailureCarriesStatus ==
  /\ call.fn = "fetchLgtmIds" /\ Len(call.got) >= 1
  /\ "status" \in DOMAIN call.got[1]
  /\ call.got[1].status \notin 200..299
  => /\ call.pc = "done"
     /\ call.out.kind = "throw"
     /\ call.out.error.name = "Error"
     /\ call.out.error.message =
          "Failed to fetch API: " \o ToString(call.got[1].status)
     /\ call.got[1].status = 500 =>
          call.out.error.message = "Failed to fetch API: 500"
     /\ call.got[1].status = 404 =>
          call.out.error.message = "Failed to fetch API: 404"
     /\ \A k \in DOMAIN call.calls : call.calls[k].api # "response.json"
     /\ Len(call.calls) = 1

\* a 500 response
C6_Witness ==
  /\ Called("fetchLgtmIds")
  /\ call.got = <<[status |-> 500]>>
  /\ call.out = Throw(Err("Error", "Failed to fetch API: 500"))

\* C7: when fetch() rejects with an error, fetchLgtmIds throws that very
\* error, name and message unchanged, not an error made by fetchLgtmIds.
C7_TransportErrorUnchanged ==
  /\ call.fn = "fetchLgtmIds" /\ Len(call.got) >= 1
  /\ "rejected" \in DOMAIN call.got[1]
  => /\ call.pc = "done"
     /\ call.out = [kind |-> "throw", error |-> call.got[1].rejected]
     /\ call.out.error \notin {FetchFailure(st) : st \in Statuses}
     /\ Len(call.calls) = 1

\* fetch() rejected with new Error("Network error")
C7_Witness ==
  /\ Called("fetchLgtmIds")
  /\ call.got = <<[rejected |-> Err("Error", "Network error")]>>
  /\ call.out.kind = "throw"
  /\ call.out.error.message = "Network error"

IsEmptyArray(v) == v.type = "array" /\ Len(v.items) = 0
IsIdArray(v) ==
  /\ v.type = "array" /\ Len(v.items) > 0
  /\ \A k \in DOMAIN v.items : v.items[k].type = "string"

\* C8: getRandomId on an empty array throws "No image IDs found", whatever
\* value Math.random() would return.
C8_EmptyInputAlways ==
  Called("getRandomId") /\ IsEmptyArray(call.arg.ids) =>
    call.out = [kind |-> "throw", error |-> Err("Error", "No image IDs found")]

\* the empty array with the draw 2/3
C8_Witness ==
  /\ Called("getRandomId")
  /\ call.arg = [ids |-> Arr(<<>>), rand |-> <<2, 3>>]
  /\ call.out.kind = "throw"
  /\ call.out.error.message = "No image IDs found"

\* C9: for every non-empty array of identifiers and every draw in [0,1),
\* getRandomId returns, and the value it returns is an element of the
\* array (of a one-element array, that element); on any array, a returned
\* value is an element of the array.
C9_ReturnsMember ==
  Called("getRandomId") =>
    /\ IsIdArray(call.arg.ids) =>
         /\ call.out.kind = "return"
         /\ call.out.value \in Range(call.arg.ids.items)
         /\ Len(call.arg.ids.items) = 1 => call.out.value = call.arg.ids.items[1]
    /\ call.out.kind = "return" => call.out.value \in Range(call.arg.ids.items)

\* a one-element array with the largest draw, and the element came back
C9_Witness ==
  /\ Called("getRandomId")
  /\ call.arg = [ids |-> Arr(<<Str("id1")>>), rand |-> <<2, 3>>]
  /\ call.out = Return(Str("id1"))

\* C10: for the draw d and an array of n >= 1 identifiers, getRandomId
\* returns the element at index floor(d * n), and 0 <= floor(d * n) < n.
C10_FloorIndex ==
  Called("getRandomId") /\ IsIdArray(call.arg.ids) =>
    LET n == Len(call.arg.ids.items)
        d == call.arg.rand
    IN  /\ \E k \in 0..(n - 1) :
             /\ k * d[2] <= d[1] * n /\ d[1] * n < (k + 1) * d[2]
             /\ call.out = Return(call.arg.ids.items[k + 1])
        /\ \A k \in (0 - n)..(2 * n) :
             k * d[2] <= d[1] * n /\ d[1] * n < (k + 1) * d[2] => k \in 0..(n - 1)

\* d = 0.5 and n = 5: index 2, the third element
C10_Witness ==
  /\ Called("getRandomId")
  /\ call.arg.ids =
       Arr(<<Str("id1"), Str("id2"), Str("id3"), Str("id4"), Str("id5")>>)
  /\ call.arg.rand = <<1, 2>>
  /\ call.out = Return(Str("id3"))


\* ids a snippet is compared against: look-alikes of the ids called with
ComparedIds ==
  FnIds \cup {"id1.avif", "id1/id1", "id", "ID1", "test-id-12", "id1 "}

\* C11: generateLgtmHtml is a function of its id alone and is injective.
\* The snippet returned for an id is the snippet of that id whenever it is
\* computed again, and no other id has the same snippet.
C11_Injective ==
  Called("generateLgtmHtml") =>
    /\ call.out.kind = "return"
    /\ \A other \in ComparedIds :
         generateLgtmHtml(other) = call.out.value.val <=> other = call.arg.id

\* the snippet of id1 was computed and is not the snippet of id2
C11_Witness ==
  /\ Called("generateLgtmHtml")
  /\ call.arg.id = "id1"
  /\ call.out.value.val # generateLgtmHtml("id2")
  /\ call.out.value.val # generateLgtmHtml("id1.avif")


-----------------------------------------------------------------------------
(* Properties of the trigger and of overlapping invocations, under Spec *)

\* the invocations that leave "idle" in this step
Starting == {i \in Inv : pc[i] = "idle" /\ pc'[i] # "idle"}

Sum(f) == LET S[k \in 0..NumInv] == IF k = 0 THEN 0 ELSE S[k - 1] + f[k]
          IN  S[NumInv]

\* C12: the orchestrator runs exactly once per icon click.  A step in which
\* invocations start is one click event: it starts exactly one
\* handleIconClick chain, which issues exactly one fetch in that step, and
\* no other step issues a fetch; a chain writes the clipboard at most once.
C12_OncePerClick ==
  /\ [][/\ Starting # {} =>
             /\ Cardinality(Starting) = 1
             /\ \A i \in Starting : pc'[i] = "fetch" /\ fetchCount'[i] = 1
             /\ Sum(fetchCount') = Sum(fetchCount) + 1
        /\ Starting = {} => fetchCount' = fetchCount]_vars
  /\ [](\A i \in Inv : fetchCount[i] <= 1 /\ writeCount[i] <= 1)

\* two clicks, two chains, one fetch each; the first chain has written
C12_Witness ==
  /\ Sum(fetchCount) = 2
  /\ \A i \in Inv : fetchCount[i] = 1
  /\ \E i \in Inv : writeCount[i] = 1
  /\ \E i \in Inv : pc[i] = "fetch"


\* ---- variant B: the success badge ----

\* badge label and acknowledgment duration in ms
\* the check mark, written by its code point
BadgeLabel == "U+2713"
BadgeDuration == 2000

\* variant: one shared timer, reset by every success (the timers of earlier
\* invocations are cancelled)
showSuccessBadgeSharedTimer(i) ==
  /\ badgeText' = BadgeLabel
  /\ badgeTimer' = [j \in Inv |->
                      IF j = i THEN PendingTimer(BadgeDuration)
                      ELSE IF badgeTimer[j].state = "pending" THEN NoTimer
                      ELSE badgeTimer[j]]
  /\ sinceSuccess' = [sinceSuccess EXCEPT ![i] = 0]

\* showSuccessBadge: set the label, then schedule this invocation's own
\* clear after BadgeDuration
showSuccessBadge(i) ==
  /\ badgeText' = BadgeLabel
  /\ badgeTimer' = [badgeTimer EXCEPT ![i] = PendingTimer(BadgeDuration)]
  /\ sinceSuccess' = [sinceSuccess EXCEPT ![i] = 0]

\* handleIconClick of variant B resumed after the clipboard write: the
\* success badge is shown before the function ends
ExecResolvesB(i) ==
  /\ pc[i] = "exec"
  /\ copyToClipboard_executed.kind = "return"
  /\ clipboard' = request[i].args[1]
  /\ writeCount' = [writeCount EXCEPT ![i] = @ + 1]
  /\ showSuccessBadge(i)
  /\ pc' = [pc EXCEPT ![i] = "done"]
  /\ result' = [result EXCEPT ![i] = "fulfilled"]
  /\ ids' = [ids EXCEPT ![i] = Undefined]
  /\ randomId' = [randomId EXCEPT ![i] = Undefined]
  /\ html' = [html EXCEPT ![i] = ""]
  /\ rnd' = [rnd EXCEPT ![i] = NoDraw]
  /\ request' = [request EXCEPT ![i] = NoRequest]
  /\ UNCHANGED <<consoleErrors, fetchCount, jsonCount, queryCount, execCount,
                 call, gate>>

\* the amounts of time that pass in one step
Delays == {1000, 2000}

Pending == {i \in Inv : badgeTimer[i].state = "pending"}

\* d ms pass; no timer is overrun: a due timer fires before time goes on
Tick(d) ==
  /\ Pending # {}
  /\ \A i \in Pending : d <= badgeTimer[i].ms
  /\ badgeTimer' = [i \in Inv |->
                      IF i \in Pending THEN PendingTimer(badgeTimer[i].ms - d)
                      ELSE badgeTimer[i]]
  /\ sinceSuccess' = [i \in Inv |->
                        IF writeCount[i] = 1 /\ badgeTimer[i] # FiredTimer
                        THEN sinceSuccess[i] + d ELSE sinceSuccess[i]]
  /\ UNCHANGED <<pc, locals, result, consoleErrors, counts, clipboard, call,
                 badgeText, gate>>

\* the timer of invocation i is due: its callback clears the badge text
BadgeTimerFires(i) ==
  /\ badgeTimer[i] = PendingTimer(0)
  /\ badgeText' = ""
  /\ badgeTimer' = [badgeTimer EXCEPT ![i] = FiredTimer]
  /\ UNCHANGED <<pc, locals, result, consoleErrors, counts, clipboard, call,
                 sinceSuccess, gate>>

\* the catalogs and draws the badge is exercised with
BadgeBodies ==
  {b \in Bodies : "ids" \in DOMAIN b => Len(b.ids.items) <= 1}
BadgeDraws == {<<0, 1>>}

NextB ==
  \/ \E i \in Inv : Click(i)
  \/ \E i \in Inv, e \in TransportErrors : FetchRejects(i, e)
  \/ \E i \in Inv, status \in Statuses : FetchResolves(i, status)
  \/ \E i \in Inv : JsonRejects(i)
  \/ \E i \in Inv, data \in BadgeBodies, rand \in BadgeDraws :
       JsonResolves(i, data, rand)
  \/ \E i \in Inv, tabs \in TabLists : QueryResolves(i, tabs)
  \/ \E i \in Inv : ExecResolvesB(i)
  \/ \E i \in Inv, e \in ScriptErrors : ExecRejects(i, e)
  \/ \E d \in Delays : Tick(d)
  \/ \E i \in Inv : BadgeTimerFires(i)

SpecB == Init /\ [][NextB]_vars

\* ---- variant B: the activation gate ----

MaxInstalls == 2

\* the host suffix of the one rule
HOST_SUFFIX == ".github.com"

\* hosts of the pages a tab can show
Hosts ==
  {NewTabHost, "gist.github.com", "docs.github.com", "notgithub.com",
   "github.com.example.org", "example.com"}

\* s ends with suffix
EndsWith(s, suffix) ==
  /\ Len(suffix) <= Len(s)
  /\ SubSeq(s, Len(s) - Len(suffix) + 1, Len(s)) = suffix

\* variant: the suffix written without its leading dot
GithubRuleNoDot ==
  [conditions |-> <<[pageUrl |-> [hostSuffix |-> "github.com"]]>>,
   actions |-> <<"ShowAction">>]

\* new PageStateMatcher({pageUrl: {hostSuffix}}) with new ShowAction()
GithubRule ==
  [conditions |-> <<[pageUrl |-> [hostSuffix |-> HOST_SUFFIX]]>>,
   actions |-> <<"ShowAction">>]

\* the rule's conditions hold of the page with this host
RuleMatches(rule, host) ==
  \E k \in DOMAIN rule.conditions :
    EndsWith(host, rule.conditions[k].pageUrl.hostSuffix)

\* the action icon of the tab can be clicked: by default, or because a
\* rule with ShowAction matches the tab's page
IconEnabled(t) ==
  \/ actionDefault = "enabled"
  \/ \E k \in DOMAIN rules : RuleMatches(rules[k], page[t])

\* runtime.onInstalled listener: chrome.action.disable(), then
\* removeRules(undefined, callback)
OnInstalled ==
  /\ installs < MaxInstalls
  /\ installs' = installs + 1
  /\ actionDefault' = "disabled"
  /\ removing' = removing + 1
  /\ UNCHANGED <<pc, locals, result, consoleErrors, counts, clipboard, call,
                 badge, rules, adding, page>>

\* the rules are removed and the callback runs: addRules([rule])
RulesRemoved ==
  /\ removing > 0
  /\ removing' = removing - 1
  /\ rules' = <<>>
  /\ adding' = adding + 1
  /\ UNCHANGED <<pc, locals, result, consoleErrors, counts, clipboard, call,
                 badge, actionDefault, installs, page>>

\* the rule passed to addRules is registered
RulesAdded ==
  /\ adding > 0
  /\ adding' = adding - 1
  /\ rules' = Append(rules, GithubRule)
  /\ UNCHANGED <<pc, locals, result, consoleErrors, counts, clipboard, call,
                 badge, actionDefault, removing, installs, page>>

\* the tab shows another page
Navigate(t, host) ==
  /\ page[t] # host
  /\ page' = [page EXCEPT ![t] = host]
  /\ UNCHANGED <<pc, locals, result, consoleErrors, counts, clipboard, call,
                 badge, actionDefault, rules, removing, adding, installs>>

NextGate ==
  \/ OnInstalled
  \/ RulesRemoved
  \/ RulesAdded
  \/ \E t \in GateTabs, host \in Hosts : Navigate(t, host)

SpecGate == Init /\ [][NextGate]_vars

\* some resumption of invocation i
Resume(i) ==
  \/ \E status \in Statuses : FetchResolves(i, status)
  \/ \E data \in Bodies, rand \in Draws : JsonResolves(i, data, rand)
  \/ \E tabs \in TabLists : QueryResolves(i, tabs)
  \/ ExecResolves(i)

\* the snippets of the ids of the catalog invocation i fetched
SnippetsOf(i) == {generateLgtmHtml(x.val) : x \in Range(ids[i].items)}

\* C15: overlapping invocations are not kept apart and the clipboard is
\* last-writer-wins.  Whatever the other invocations are doing, an idle
\* invocation can be started by a click and a suspended one can resume and
\* run on to its end; the clipboard changes only in the step in which an
\* invocation's write runs, and then to that invocation's own text, the
\* snippet of an id of the catalog that same invocation fetched; so it
\* always holds its initial content or the text of the write that ran last.
C15_LastWriterWins ==
  /\ [](\A i \in Inv :
          /\ pc[i] = "idle" => ENABLED Click(i)
          /\ pc[i] \in {"fetch", "json", "query", "exec"} => ENABLED Resume(i))
  /\ [](Sum(writeCount) = 0 => clipboard = InitialClipboard)
  /\ [][/\ \A i \in Inv :
             writeCount'[i] # writeCount[i] =>
               /\ pc[i] = "exec"
               /\ clipboard' = html[i]
               /\ clipboard' \in SnippetsOf(i)
        /\ (\A i \in Inv : writeCount'[i] = writeCount[i]) =>
             clipboard' = clipboard]_vars

\* one invocation has written the snippet of id3 while another, whose
\* catalog is [id1], is still waiting for its own write of another text
C15_Witness ==
  \E i, j \in Inv :
    /\ Succeeded(i) /\ clipboard = generateLgtmHtml("id3")
    /\ pc[j] = "exec" /\ ids[j] = Arr(<<Str("id1")>>)
    /\ request[j].args # <<clipboard>>
    /\ clipboard \notin SnippetsOf(j)

\* C16: nothing is retried or cached.  An invocation that has started has
\* issued exactly one fetch, whatever became of it, and at most one
\* response.json, one tabs.query and one executeScript call; it holds ids
\* only from its own decoded response, and none while its own fetch or
\* decoding is outstanding, whatever other invocations have fetched.
C16_NoRetryNoCache ==
  \A i \in Inv :
    /\ fetchCount[i] = IF pc[i] = "idle" THEN 0 ELSE 1
    /\ jsonCount[i] <= 1 /\ queryCount[i] <= 1 /\ execCount[i] <= 1
    /\ writeCount[i] <= 1
    /\ pc[i] \in {"idle", "fetch", "json"} => ids[i] = Undefined
    /\ ids[i] # Undefined => fetchCount[i] = 1 /\ jsonCount[i] = 1

\* one invocation failed at its fetch after one GET; a later one has
\* issued its own GET and is decoding its own response, while yet holding
\* no ids
C16_Witness ==
  \E i, j \in Inv :
    /\ Failed(i) /\ fetchCount[i] = 1 /\ jsonCount[i] = 0
    /\ consoleErrors[i][1][2] = Err("Error", "Failed to fetch API: 500")
    /\ pc[j] = "json" /\ fetchCount[j] = 1 /\ ids[j] = Undefined

\* the errors each stage can raise, as the stage raises them
RaisedAt(stage) ==
  CASE stage = "fetch" ->
         TransportErrors
           \cup {Err("Error", "Failed to fetch API: 404"),
                 Err("Error", "Failed to fetch API: 500")}
    [] stage = "json" ->
         {JsonError, LengthOfUndefined, Err("Error", "No image IDs found"),
          Err("Error", "Unexpected error: Failed to get ID")}
    [] stage = "query" -> {Err("Error", "No active tab found")}
    [] stage = "exec" -> ScriptErrors
    [] OTHER -> {}

\* C17: errors reach the single catch point unmodified.  Whenever an
\* invocation logs, it logs once, with the prefix "Copy error:", and the
\* value logged is the error object raised by the stage it was suspended
\* in: the transport's rejection or the FetchFailure at the fetch, the
\* EmptyInput (or the decoder's own error) at the pick, NoActiveSurface at
\* the tab lookup, the platform's rejection at the script execution.
C17_ErrorsUnmodified ==
  [][\A i \in Inv :
       consoleErrors'[i] # consoleErrors[i] =>
         /\ consoleErrors[i] = <<>> /\ Len(consoleErrors'[i]) = 1
         /\ consoleErrors'[i][1][1] = "Copy error:"
         /\ consoleErrors'[i][1][2] \in RaisedAt(pc[i])]_vars

\* a transport rejection and a missing tab, each logged as raised
C17_Witness ==
  \E i, j \in Inv :
    /\ consoleErrors[i] = <<<<"Copy error:", Err("TypeError", "Failed to fetch")>>>>
    /\ consoleErrors[j] = <<<<"Copy error:", Err("Error", "No active tab found")>>>>


\* C18: when the array is not empty and its element at index
\* floor(d * length) is undefined, getRandomId throws "Unexpected error:
\* Failed to get ID", which is not the error it throws on the empty array;
\* and getRandomId never returns undefined.
C18_AbsentElement ==
  Called("getRandomId") =>
    /\ call.out.kind = "return" => call.out.value # Undefined
    /\ /\ call.arg.ids.type = "array" /\ Len(call.arg.ids.items) > 0
       /\ call.arg.ids.items[FloorOf(call.arg.rand, Len(call.arg.ids.items)) + 1]
            = Undefined
       => /\ call.out =
               [kind |-> "throw",
                error |-> Err("Error", "Unexpected error: Failed to get ID")]
          /\ call.out # getRandomId(Arr(<<>>), call.arg.rand)

\* [id1, undefined] with the draw 1/2, which indexes the undefined element
C18_Witness ==
  /\ Called("getRandomId")
  /\ call.arg = [ids |-> Arr(<<Str("id1"), Undefined>>), rand |-> <<1, 2>>]
  /\ call.out.kind = "throw"
  /\ call.out.error.message = "Unexpected error: Failed to get ID"


HasSuffix(s, suffix) ==
  LET n == Len(s)
      m == Len(suffix)
  IN  /\ m <= n
      /\ \A k \in 1..m : SubSeq(s, n - m + k, n - m + k) = SubSeq(suffix, k, k)

====
